---- MODULE Spec2Model ----
(***************************************************************************)
(* DataVault: one backup cycle (BackupManager.RunBackup) with its two      *)
(* concurrent backend uploads (GoogleDriveClient.UploadFolder and          *)
(* PCloudClient.UploadFolder), driven by main and StartScheduler.          *)
(***************************************************************************)
EXTENDS Integers, Sequences, FiniteSets, TLC

\* ------------------------------------------------------------------ bounds

\* RunBackup invocations explored per behaviour (the scheduler loops forever).
MaxCycles == 2

\* --------------------------------------------------------------- constants

\* The two backends RunBackup drives, in the order it launches them.
Backends == {"gdrive", "pcloud"}

\* results := make(chan BackupResult, 2)
ResultsCapOne == 2 - 1
ResultsCap == 2

\* The collector loop of the code is `for i := 0; i < 2; i++`.
ExpectedResultsShort == 2 - 1
ExpectedResults == 2

\* The denominator of the success log line, "(%d/2 uploads succeeded)".
ReportedTotal == 2

\* The remote ID of the run container (backupFolderID); the remote folder
\* created for the staged directory n is given the ID n.
RunContainerId == 0

\* ------------------------------------------------------------ source trees
\* A staged tree: node 1 is destPath, kind[n] is what entry.IsDir() says of
\* node n, children[n] is os.ReadDir's (name-sorted) listing of directory n.
\* Nodes are numbered in filepath.Walk's order. name[n] is entry.Name() and
\* data[n] the bytes of a file.

\* {}  (an empty source folder)
TreeEmpty ==
    [ kind     |-> <<"dir">>,
      children |-> << <<>> >>,
      name     |-> <<"src">>,
      data     |-> <<"">> ]

\* {a.txt, sub/b.txt}: the last entry of the root is a directory
TreeSubLast ==
    [ kind     |-> <<"dir", "file", "dir", "file">>,
      children |-> << <<2, 3>>, <<>>, <<4>>, <<>> >>,
      name     |-> <<"src", "a.txt", "sub", "b.txt">>,
      data     |-> <<"", "A", "", "B">> ]

\* {lib/x, lib/y, z.txt}: a directory followed by a file
TreeSubFirst ==
    [ kind     |-> <<"dir", "dir", "file", "file", "file">>,
      children |-> << <<2, 5>>, <<3, 4>>, <<>>, <<>>, <<>> >>,
      name     |-> <<"src", "lib", "x", "y", "z.txt">>,
      data     |-> <<"", "", "X", "Y", "Z">> ]

\* {a.txt, sub/b.txt, sub/deep/a.txt}: three levels, a name used twice
TreeDeep ==
    [ kind     |-> <<"dir", "file", "dir", "file", "dir", "file">>,
      children |-> << <<2, 3>>, <<>>, <<4, 5>>, <<>>, <<6>>, <<>> >>,
      name     |-> <<"src", "a.txt", "sub", "b.txt", "deep", "a.txt">>,
      data     |-> <<"", "A", "", "B", "", "C">> ]

Trees == {TreeEmpty, TreeSubLast, TreeSubFirst, TreeDeep}

Nodes(t) == 1..Len(t.kind)

\* The local parent directory of node n (0 for destPath itself).
ParentOf(t, n) ==
    IF \E d \in Nodes(t) : \E i \in 1..Len(t.children[d]) : t.children[d][i] = n
    THEN CHOOSE d \in Nodes(t) : \E i \in 1..Len(t.children[d]) : t.children[d][i] = n
    ELSE 0

\* The remote container that mirrors the local directory d.
RemoteIdOf(d) == IF d = 1 THEN RunContainerId ELSE d

\* filepath.Walk: a directory, then its entries in lexical order, recursively.
RECURSIVE WalkFrom(_, _, _)
WalkFrom(t, todo, fuel) ==
    IF todo = <<>> \/ fuel = 0 THEN <<>>
    ELSE <<Head(todo)>> \o WalkFrom(t, t.children[Head(todo)] \o Tail(todo), fuel - 1)

WalkOrder(t) == WalkFrom(t, <<1>>, Len(t.kind))

\* ------------------------------------------------------------------- state

VARIABLES
    config,         \* Config: auth (credentials non-empty, per backend), dryRun, tree
    client,         \* bm.gdrive / bm.pcloud: "nil" or "ready"
    mainPc,         \* where main is
    cancelled,      \* ctx.Done() is closed
    cycles,         \* RunBackup invocations so far
    pc,             \* where RunBackup is
    staging,        \* backupPath: exists, copied (entries staged so far), removeFailed
    deferred,       \* defer bm.cleanup(backupPath) is registered
    cleanupRan,     \* bm.cleanup ran in this cycle
    results,        \* the results channel (buffered)
    collected,      \* the results received by the collector loop, in order
    successCount,   \* successCount of RunBackup
    retErr,         \* RunBackup's return value
    reported,       \* the counts of the success log line, or <<>>
    upPc,           \* per backend: where its upload goroutine is
    stack,          \* per backend: the frames of uploadDirectoryRecursive
    upErr,          \* per backend: what UploadFolder returned
    remote,         \* per backend: the objects created under the run container
    runContainer,   \* per backend: the run container was created
    uploadCalls,    \* per backend: UploadFolder invocations in this cycle
    started,        \* per backend: entries whose processing was begun
    entryFails,     \* per backend: entries whose remote creation failed
    readFails,      \* per backend: staged directories os.ReadDir could not read
    cancelObserved, \* per backend: a walk level took the <-ctx.Done() branch
    cancelInFlight, \* per backend: ctx was cancelled while UploadFolder ran
    provider,       \* per backend: the objects of the account that bear on its root folder
    adapter,        \* per backend: the client object (service, rootFolderID, initialized)
    harness,        \* per backend: a client exercised on its own (AdapterSpec)
    net,            \* per backend: network requests were issued (init: at startup, upload: in this cycle)
    runMeta,        \* per backend: the run containers created in this cycle (name, parent)
    backupName,     \* backupName of the cycle in hand
    tickPending     \* ticker.C of StartScheduler holds a tick

vars == << config, client, mainPc, cancelled, cycles, pc, staging, deferred,
           cleanupRan, results, collected, successCount, retErr, reported,
           upPc, stack, upErr, remote, runContainer, uploadCalls, started,
           entryFails, readFails, cancelObserved, cancelInFlight, provider, adapter,
           harness, net, runMeta, backupName, tickPending >>

runVars == << pc, staging, deferred, cleanupRan, results, collected,
              successCount, retErr, reported >>

upVars == << upPc, stack, upErr, remote, runContainer, uploadCalls, started,
             entryFails, readFails, cancelObserved, cancelInFlight >>

adapterVars == << provider, adapter, harness >>

cycleVars == << net, runMeta, backupName >>

mainVars == << config, client, mainPc, cancelled, cycles >>

Tree == config.tree

NoStaging == [exists |-> FALSE, copied |-> 0, removeFailed |-> FALSE, name |-> <<>>]

InFlight(b) == upPc[b] \in {"upload_folder", "walk"}

\* ------------------------------------------------------- the two providers
\* What an account holds that bears on root-container resolution: objects
\* with an ID, a name, a type, a parent and (Google Drive) a trashed mark.

\* "folderid": "0", the root folder of a pCloud account; the same number
\* stands for the My Drive root, where Files.Create puts a file without Parents.
GlobalRoot == 0

\* Name: "DataVault" / "name": "DataVault"
WellKnownName == "DataVault"

Obj(id, name, isFolder, parent, trashed) ==
    [id |-> id, name |-> name, isFolder |-> isFolder, parent |-> parent,
     trashed |-> trashed]

\* Sample accounts: empty; the root folder is there; a file of that name in the
\* root; a folder of that name inside another folder; a trashed folder of that
\* name; a folder of that name in the root and another inside a folder.
ProviderStates ==
    { {},
      {Obj(1, "DataVault", TRUE, 0, FALSE)},
      {Obj(1, "DataVault", FALSE, 0, FALSE)},
      {Obj(1, "Documents", TRUE, 0, FALSE), Obj(2, "DataVault", TRUE, 1, FALSE)},
      {Obj(1, "DataVault", TRUE, 0, TRUE)},
      {Obj(1, "Documents", TRUE, 0, FALSE), Obj(2, "DataVault", TRUE, 1, FALSE),
       Obj(3, "DataVault", TRUE, 0, FALSE)} }

\* The ID the provider gives the next object it creates.
NewId(p) == IF p = {} THEN 1 ELSE 1 + (CHOOSE i \in {o.id : o \in p} : \A o \in p : o.id <= i)

\* The zero value of rootFolderID: int64 0 for pCloud (which is the ID of the
\* account's root folder), the empty string for Google Drive (which names no
\* object: -1 here).
ZeroRootFolderID(b) == IF b = "pcloud" THEN 0 ELSE 0 - 1

\* &GoogleDriveClient{authFile: ...} / &PCloudClient{...}: a client before
\* initialize(). service stands for gdc.service # nil; a PCloudClient has its
\* http client from construction.
NewClient(b) ==
    [service |-> b = "pcloud", rootFolderID |-> ZeroRootFolderID(b),
     initialized |-> FALSE]

\* What the existing-folder lookup of ensureRootFolder matches. Google Drive:
\* Files.List with q = name='DataVault' and mimeType=folder and trashed=false,
\* over the whole account. pCloud: listfolder of folderid 0 (its live
\* children), filtered on item.IsFolder && item.Name == "DataVault".
LookupNothing(b, p) == {}
Lookup(b, p) ==
    IF b = "gdrive"
    THEN {o \in p : o.name = WellKnownName /\ o.isFolder /\ ~o.trashed}
    ELSE {o \in p : o.parent = GlobalRoot /\ ~o.trashed
                    /\ o.isFolder /\ o.name = WellKnownName}

\* The folder ensureRootFolder creates when the lookup matched nothing: both
\* providers are asked for a folder named DataVault in the account's root.
CreatedRoot(p) == Obj(NewId(p), WellKnownName, TRUE, GlobalRoot, FALSE)

\* ensureRootFolder on client ad against the account p: the outcomes of one
\* invocation. The listing may fail; a match is recorded (Files[0], the first
\* match of the listing: the provider decides the order); without a match the
\* folder is created, which may fail. rootFolderID is set on success only.
EnsureRootFolder(b, ad, p) ==
    {[err |-> "failed to list root folder", adapter |-> ad, provider |-> p]}
    \cup
    (IF Lookup(b, p) # {}
     THEN {[err |-> "nil", adapter |-> [ad EXCEPT !.rootFolderID = o.id],
            provider |-> p] : o \in Lookup(b, p)}
     ELSE {[err |-> "failed to create root folder", adapter |-> ad, provider |-> p],
           [err |-> "nil",
            adapter |-> [ad EXCEPT !.rootFolderID = CreatedRoot(p).id],
            provider |-> p \cup {CreatedRoot(p)}]})

\* What initialize() does before ensureRootFolder. Google Drive: the
\* credentials file is read and parsed and the Drive service is built (no
\* request is sent); any of these may fail. pCloud: nothing.
BeforeEnsure(b, ad) ==
    IF b = "gdrive"
    THEN {[err |-> "failed to read credentials", adapter |-> ad],
          [err |-> "nil", adapter |-> [ad EXCEPT !.service = TRUE]]}
    ELSE {[err |-> "nil", adapter |-> ad]}

\* initialize(): its outcomes, with net telling whether a request was sent.
Initialize(b, ad, p) ==
    {[err |-> pre.err, adapter |-> pre.adapter, provider |-> p, net |-> FALSE] :
        pre \in {x \in BeforeEnsure(b, ad) : x.err # "nil"}}
    \cup
    UNION {{[err |-> r.err,
             adapter |-> [r.adapter EXCEPT !.initialized = (r.err = "nil")],
             provider |-> r.provider, net |-> TRUE] :
                r \in EnsureRootFolder(b, pre.adapter, p)} :
           pre \in {x \in BeforeEnsure(b, ad) : x.err = "nil"}}

\* NewGoogleDriveClient / NewPCloudClient: nil when initialize() failed.
\* NewBackupManager calls them for the credentials that are non-empty.
ClientOfFailedInit(authGiven, err) == IF authGiven THEN "ready" ELSE "nil"
ClientOf(authGiven, err) == IF authGiven /\ err = "nil" THEN "ready" ELSE "nil"

\* backupName := fmt.Sprintf("backup_%s", timestamp): the label of the cycle
\* that starts at time ts.
BackupName(ts) == <<"backup_", ts>>

\* The label RunBackup hands to the UploadFolder of backend b, name being its
\* backupName: bm.gdrive.UploadFolder(ctx, destPath, backupName), and the same
\* for pCloud; UploadFolder names the run container after it.
UploadLabelPerBackend(b, name) == <<b>> \o name
UploadLabel(b, name) == name

\* backupPath := filepath.Join(bm.tempDir, backupName): the name of the staging
\* subdirectory of the cycle.
StagingName(name) == name

\* A client exercised on its own: nothing was called yet.
NoHarness ==
    [pc |-> "new", resolved |-> <<>>, created |-> <<>>, before |-> {},
     upload |-> [err |-> "none", net |-> FALSE, parent |-> 0 - 1]]

\* Everything but config and the accounts, before main does anything.
Quiescent ==
    /\ client = [b \in Backends |-> "nil"]
    /\ mainPc = "validate"
    /\ cancelled = FALSE
    /\ cycles = 0
    /\ pc = "idle"
    /\ staging = NoStaging
    /\ deferred = FALSE
    /\ cleanupRan = FALSE
    /\ results = <<>>
    /\ collected = <<>>
    /\ successCount = 0
    /\ retErr = "none"
    /\ reported = <<>>
    /\ upPc = [b \in Backends |-> "idle"]
    /\ stack = [b \in Backends |-> <<>>]
    /\ upErr = [b \in Backends |-> "none"]
    /\ remote = [b \in Backends |-> {}]
    /\ runContainer = [b \in Backends |-> FALSE]
    /\ uploadCalls = [b \in Backends |-> 0]
    /\ started = [b \in Backends |-> {}]
    /\ entryFails = [b \in Backends |-> {}]
    /\ readFails = [b \in Backends |-> {}]
    /\ cancelObserved = [b \in Backends |-> FALSE]
    /\ cancelInFlight = [b \in Backends |-> FALSE]
    /\ adapter = [b \in Backends |-> NewClient(b)]
    /\ harness = [b \in Backends |-> NoHarness]
    /\ net = [b \in Backends |-> [init |-> FALSE, upload |-> FALSE]]
    /\ runMeta = [b \in Backends |-> <<>>]
    /\ backupName = <<>>
    /\ tickPending = FALSE

\* The program starts on two fresh accounts.
Init ==
    /\ config \in [auth : [Backends -> BOOLEAN], dryRun : BOOLEAN, tree : Trees]
    /\ provider = [b \in Backends |-> {}]
    /\ Quiescent

\* -------------------------------------------------------------------- main

\* ValidateConfig: at least one cloud storage authentication must be given.
ValidateConfig ==
    /\ mainPc = "validate"
    /\ mainPc' = IF \A b \in Backends : ~config.auth[b] THEN "exit1" ELSE "new_manager"
    /\ UNCHANGED << config, client, cancelled, cycles >>
    /\ UNCHANGED runVars
    /\ UNCHANGED upVars
    /\ UNCHANGED adapterVars
    /\ UNCHANGED cycleVars
    /\ UNCHANGED tickPending

\* NewBackupManager: a client is built and initialized for each backend whose
\* credentials are non-empty (dry run or not); a client whose initialize()
\* fails is left nil.
NewBackupManager ==
    /\ mainPc = "new_manager"
    /\ \E r \in [Backends -> UNION {Initialize(b, adapter[b], provider[b]) : b \in Backends}] :
          /\ \A b \in Backends : r[b] \in Initialize(b, adapter[b], provider[b])
          /\ client' = [b \in Backends |-> ClientOf(config.auth[b], r[b].err)]
          /\ adapter' = [b \in Backends |->
                            IF config.auth[b] THEN r[b].adapter ELSE adapter[b]]
          /\ provider' = [b \in Backends |->
                            IF config.auth[b] THEN r[b].provider ELSE provider[b]]
          /\ net' = [b \in Backends |->
                        [net[b] EXCEPT !.init = config.auth[b] /\ r[b].net]]
    /\ mainPc' = "initial_backup"
    /\ UNCHANGED << config, cancelled, cycles >>
    /\ UNCHANGED runVars
    /\ UNCHANGED upVars
    /\ UNCHANGED << harness, runMeta, backupName >>
    /\ UNCHANGED tickPending

\* The signal goroutine of main: sig := <-sigChan; cancel().
Cancel ==
    /\ mainPc \in {"new_manager", "initial_backup", "running", "scheduler"}
    /\ ~cancelled
    /\ cancelled' = TRUE
    /\ cancelInFlight' = [b \in Backends |-> cancelInFlight[b] \/ InFlight(b)]
    /\ UNCHANGED << config, client, mainPc, cycles >>
    /\ UNCHANGED runVars
    /\ UNCHANGED << upPc, stack, upErr, remote, runContainer, uploadCalls,
                    started, entryFails, readFails, cancelObserved >>
    /\ UNCHANGED adapterVars
    /\ UNCHANGED cycleVars
    /\ UNCHANGED tickPending

\* --------------------------------------------------------------- RunBackup

\* The value sent for a backend whose client is nil.
NotConfigured(b) ==
    [backend |-> b, Success |-> FALSE, Message |-> "not configured", Error |-> "nil"]

\* The value an upload goroutine sends once UploadFolder returned err.
UploadResult(b, err) ==
    IF err # "nil"
    THEN [backend |-> b, Success |-> FALSE, Message |-> "upload failed", Error |-> err]
    ELSE [backend |-> b, Success |-> TRUE, Message |-> "upload successful", Error |-> "nil"]

\* Where RunBackup goes once copyDirectory returned err.
AfterCopyIgnoringError(err, dryRun) ==
    IF dryRun THEN "return" ELSE "launch_gdrive"
AfterCopy(err, dryRun) ==
    IF err # "nil" THEN "return"
    ELSE IF dryRun THEN "return"
    ELSE "launch_gdrive"

\* RunBackup's return value once copyDirectory returned err ("none": not
\* returning yet).
CopyReturn(err, dryRun) ==
    IF err # "nil" THEN "failed to copy source directory"
    ELSE IF dryRun THEN "nil"
    ELSE "none"

\* if successCount == 0 { return fmt.Errorf("all uploads failed") } ... return nil
DecideAllMustSucceed(count) ==
    IF count < 2 THEN "all uploads failed" ELSE "nil"
Decide(count) ==
    IF count = 0 THEN "all uploads failed" ELSE "nil"

\* log.Printf("Backup completed successfully (%d/2 uploads succeeded)", successCount)
Report(count) == [succeeded |-> count, outOf |-> ReportedTotal]

\* Whether bm.cleanup(backupPath) runs when RunBackup returns err: it is
\* deferred, so it runs on every return that follows its registration.
RunsCleanupOnSuccessOnly(registered, err) == registered /\ err = "nil"
RunsCleanup(registered, err) == registered

\* Where the caller of RunBackup is while RunBackup runs: main and the ticker
\* case of StartScheduler call it themselves (no go statement), so the caller
\* is inside the call and not at the select of the scheduler loop.
CallerDuringRunBackupAsync == "scheduler"
CallerDuringRunBackup == "running"

\* RunBackup is entered: nothing of the previous cycle is left.
BeginRunBackup ==
    /\ cycles < MaxCycles
    /\ cycles' = cycles + 1
    /\ mainPc' = CallerDuringRunBackup
    /\ pc' = "mkdir"
    /\ staging' = NoStaging
    /\ deferred' = FALSE
    /\ cleanupRan' = FALSE
    /\ results' = <<>>
    /\ collected' = <<>>
    /\ successCount' = 0
    /\ retErr' = "none"
    /\ reported' = <<>>
    /\ upPc' = [b \in Backends |-> "idle"]
    /\ stack' = [b \in Backends |-> <<>>]
    /\ upErr' = [b \in Backends |-> "none"]
    /\ remote' = [b \in Backends |-> {}]
    /\ runContainer' = [b \in Backends |-> FALSE]
    /\ uploadCalls' = [b \in Backends |-> 0]
    /\ started' = [b \in Backends |-> {}]
    /\ entryFails' = [b \in Backends |-> {}]
    /\ readFails' = [b \in Backends |-> {}]
    /\ cancelObserved' = [b \in Backends |-> FALSE]
    /\ cancelInFlight' = [b \in Backends |-> FALSE]
    /\ UNCHANGED << config, client, cancelled >>
    /\ backupName' = BackupName(cycles + 1)
    /\ runMeta' = [b \in Backends |-> <<>>]
    /\ net' = [b \in Backends |-> [net[b] EXCEPT !.upload = FALSE]]
    /\ UNCHANGED adapterVars

\* main: the initial backup.
InitialBackup ==
    /\ mainPc = "initial_backup"
    /\ BeginRunBackup
    /\ UNCHANGED tickPending

\* ticker := time.NewTicker(interval) runs from the entry of StartScheduler,
\* which main calls once the initial backup returned, until StartScheduler
\* returns.
TickerRunning ==
    \/ mainPc = "scheduler"
    \/ mainPc = "running" /\ cycles >= 2

\* The interval elapses: the ticker puts a tick in its channel, which holds
\* one; a tick that finds the channel full is dropped.
Tick ==
    /\ TickerRunning
    /\ ~tickPending
    /\ tickPending' = TRUE
    /\ UNCHANGED mainVars
    /\ UNCHANGED runVars
    /\ UNCHANGED upVars
    /\ UNCHANGED adapterVars
    /\ UNCHANGED cycleVars

\* Whether the select of the scheduler loop may take its ticker case: a tick
\* is in the channel. A select with several ready cases takes any of them,
\* so a cancelled context does not keep it from this one.
TickerCaseReady(pending, done) == pending

\* StartScheduler: case <-ticker.C.
SchedulerTick ==
    /\ mainPc = "scheduler"
    /\ TickerCaseReady(tickPending, cancelled)
    /\ BeginRunBackup
    /\ tickPending' = FALSE

\* StartScheduler: case <-ctx.Done(): return ctx.Err(), which main treats as
\* fatal.
SchedulerStop ==
    /\ mainPc = "scheduler"
    /\ cancelled
    /\ mainPc' = "fatal"
    /\ UNCHANGED << config, client, cancelled, cycles >>
    /\ UNCHANGED runVars
    /\ UNCHANGED upVars
    /\ UNCHANGED adapterVars
    /\ UNCHANGED cycleVars
    /\ UNCHANGED tickPending

\* os.MkdirAll(backupPath) and, when it succeeds, defer bm.cleanup(backupPath).
MkdirStaging ==
    /\ pc = "mkdir"
    /\ \E ok \in BOOLEAN :
          IF ok
          THEN /\ staging' = [staging EXCEPT !.exists = TRUE, !.name = StagingName(backupName)]
               /\ deferred' = TRUE
               /\ pc' = "copy"
               /\ retErr' = retErr
          ELSE /\ retErr' = "failed to create backup directory"
               /\ pc' = "return"
               /\ UNCHANGED << staging, deferred >>
    /\ UNCHANGED << config, client, mainPc, cancelled, cycles, cleanupRan,
                    results, collected, successCount, reported >>
    /\ UNCHANGED upVars
    /\ UNCHANGED adapterVars
    /\ UNCHANGED cycleVars
    /\ UNCHANGED tickPending

\* copyDirectory: filepath.Walk copies the next entry; the first entry that
\* cannot be copied ends the walk with its error.
CopyDirectoryStep ==
    /\ pc = "copy"
    /\ staging.copied < Len(WalkOrder(Tree))
    /\ \E ok \in BOOLEAN :
          LET done == staging.copied + 1 = Len(WalkOrder(Tree))
              err  == IF ok THEN "nil" ELSE "copy error"
          IN  /\ staging' = IF ok THEN [staging EXCEPT !.copied = @ + 1] ELSE staging
              /\ IF ok /\ ~done
                 THEN UNCHANGED << pc, retErr >>
                 ELSE /\ pc' = AfterCopy(err, config.dryRun)
                      /\ retErr' = CopyReturn(err, config.dryRun)
    /\ UNCHANGED << config, client, mainPc, cancelled, cycles, deferred,
                    cleanupRan, results, collected, successCount, reported >>
    /\ UNCHANGED upVars
    /\ UNCHANGED adapterVars
    /\ UNCHANGED cycleVars
    /\ UNCHANGED tickPending

LaunchPc(b) == IF b = "gdrive" THEN "launch_gdrive" ELSE "launch_pcloud"

\* Whether the launch of backend b is held up: the upload is handed to a
\* goroutine of its own (go func() {...}()), so the launch waits for no
\* upload launched before it.
LaunchBlockedWhileUploading(b) == \E o \in Backends \ {b} : InFlight(o)
LaunchBlocked(b) == FALSE

\* One of the two `if client != nil { go func() {...}() } else { results <- ... }`.
Launch(b, next) ==
    /\ pc = LaunchPc(b)
    /\ ~LaunchBlocked(b)
    /\ pc' = next
    /\ IF client[b] # "nil"
       THEN /\ upPc' = [upPc EXCEPT ![b] = "upload_folder"]
            /\ uploadCalls' = [uploadCalls EXCEPT ![b] = @ + 1]
            /\ UNCHANGED results
       ELSE /\ Len(results) < ResultsCap
            /\ results' = Append(results, NotConfigured(b))
            /\ UNCHANGED << upPc, uploadCalls >>
    /\ UNCHANGED << config, client, mainPc, cancelled, cycles, staging, deferred,
                    cleanupRan, collected, successCount, retErr, reported >>
    /\ UNCHANGED << stack, upErr, remote, runContainer, started, entryFails,
                    readFails, cancelObserved, cancelInFlight >>
    /\ UNCHANGED adapterVars
    /\ UNCHANGED cycleVars
    /\ UNCHANGED tickPending

LaunchGDrive == Launch("gdrive", "launch_pcloud")

LaunchPCloud == Launch("pcloud", "collect")

\* One iteration of the collector loop: result := <-results.
Collect ==
    /\ pc = "collect"
    /\ Len(collected) < ExpectedResults
    /\ results # <<>>
    /\ collected' = Append(collected, Head(results))
    /\ results' = Tail(results)
    /\ successCount' = IF Head(results).Success THEN successCount + 1 ELSE successCount
    /\ UNCHANGED << config, client, mainPc, cancelled, cycles, pc, staging,
                    deferred, cleanupRan, retErr, reported >>
    /\ UNCHANGED upVars
    /\ UNCHANGED adapterVars
    /\ UNCHANGED cycleVars
    /\ UNCHANGED tickPending

\* After the loop: the cycle's result.
DecideCycle ==
    /\ pc = "collect"
    /\ Len(collected) >= ExpectedResults
    /\ retErr' = Decide(successCount)
    /\ reported' = IF Decide(successCount) = "nil" THEN Report(successCount) ELSE <<>>
    /\ pc' = "return"
    /\ UNCHANGED << config, client, mainPc, cancelled, cycles, staging, deferred,
                    cleanupRan, results, collected, successCount >>
    /\ UNCHANGED upVars
    /\ UNCHANGED adapterVars
    /\ UNCHANGED cycleVars
    /\ UNCHANGED tickPending

\* Where main is once RunBackup returned err: both callers (main for the
\* initial backup, the ticker case of StartScheduler) log the error and go on
\* to the select of the scheduler loop.
AfterRunBackupFatalOnError(err) == IF err = "nil" THEN "scheduler" ELSE "fatal"
AfterRunBackup(err) == "scheduler"

\* RunBackup returns: the deferred cleanup runs (os.RemoveAll may fail, which
\* is only logged), then the caller goes on to the scheduler's select.
ReturnRunBackup ==
    /\ pc = "return"
    /\ IF RunsCleanup(deferred, retErr)
       THEN /\ cleanupRan' = TRUE
            /\ \E removed \in BOOLEAN :
                  staging' = IF removed
                             THEN NoStaging
                             ELSE [staging EXCEPT !.removeFailed = TRUE]
       ELSE UNCHANGED << cleanupRan, staging >>
    /\ pc' = "idle"
    /\ mainPc' = AfterRunBackup(retErr)
    /\ UNCHANGED << config, client, cancelled, cycles, deferred, results,
                    collected, successCount, retErr, reported >>
    /\ UNCHANGED upVars
    /\ UNCHANGED adapterVars
    /\ UNCHANGED cycleVars
    /\ UNCHANGED tickPending

\* ------------------------------------------------------------ UploadFolder

\* Whether a remote call is made with ctx: every pCloud request is
\* (makeRequest and uploadFile build it with ctx); of the Google Drive calls
\* only the file upload is (.Context(ctx)), the folder creations are not.
UsesCtx(b, op) == b = "pcloud" \/ op = "file"

\* The outcomes of one remote call (TRUE: created). A request built on a
\* context that is already cancelled fails without being sent.
RemoteOutcomes(b, op, done) == IF done /\ UsesCtx(b, op) THEN {FALSE} ELSE BOOLEAN

\* Where UploadFolder goes after trying to create the run container.
AfterCreateBackupFolderIgnoringError(created) == "walk"
AfterCreateBackupFolder(created) == IF created THEN "walk" ELSE "send"

\* The select at the head of the loop body, at recursion depth `depth`:
\* case <-ctx.Done(): return ctx.Err().
CtxDoneTopLevelOnly(done, depth) == done /\ depth = 1
CtxDone(done, depth) == done

\* Whether the failure of one entry (op: "folder" or "file") ends the walk of
\* its directory: it is logged and the loop goes on.
EntryErrorAbortsOnFile(op) == op = "file"
EntryErrorAborts(op) == FALSE

\* What copyDirectory makes of the source entry n: dstPath is dst joined
\* with the path of n relative to src, so the staged entry has the name of n;
\* copyFile copies the bytes of a file with io.Copy.
StagedName(t, n) == t.name[n]

StagedData(t, n) == t.data[n]

\* What the provider holds once the staged entry e was created under
\* parentID: a folder named entry.Name(), or a file named entry.Name() with
\* the bytes read from the staged file (Media(file); pCloud: io.Copy into the
\* form). A new folder is given the ID e.
RemoteEntryFlat(t, e, parentID) ==
    [node |-> e, parent |-> RunContainerId, name |-> StagedName(t, e),
     kind |-> t.kind[e], data |-> StagedData(t, e)]
RemoteEntry(t, e, parentID) ==
    [node |-> e, parent |-> parentID, name |-> StagedName(t, e),
     kind |-> t.kind[e], data |-> StagedData(t, e)]

Frame(dir, parent) == [dir |-> dir, idx |-> 1, parent |-> parent, phase |-> "check"]

Top(b) == stack[b][Len(stack[b])]

Entries(b) == Tree.children[Top(b).dir]

\* The goroutine of b once the running level of uploadDirectoryRecursive goes
\* on to its next entry.
Advanced(b) ==
    [ stack |-> [stack[b] EXCEPT ![Len(stack[b])] =
                    [@ EXCEPT !.idx = @ + 1, !.phase = "check"]],
      err   |-> upErr[b],
      pc    |-> "walk" ]

\* The goroutine of b once the running level of uploadDirectoryRecursive
\* returned err: the outermost level returns it from UploadFolder; an inner
\* level returns it to the loop of its parent, which logs it and goes on to
\* its next entry.
Returned(b, err) ==
    IF Len(stack[b]) = 1
    THEN [ stack |-> <<>>, err |-> err, pc |-> "send" ]
    ELSE [ stack |-> [SubSeq(stack[b], 1, Len(stack[b]) - 1)
                         EXCEPT ![Len(stack[b]) - 1] =
                            [@ EXCEPT !.idx = @ + 1, !.phase = "check"]],
           err   |-> upErr[b],
           pc    |-> "walk" ]

\* The goroutine of b once the entry in hand failed with err.
EntryFailed(b, op, err) ==
    IF EntryErrorAborts(op) THEN Returned(b, err) ELSE Advanced(b)

Goto(b, g) ==
    /\ stack' = [stack EXCEPT ![b] = g.stack]
    /\ upErr' = [upErr EXCEPT ![b] = g.err]
    /\ upPc'  = [upPc EXCEPT ![b] = g.pc]

\* if gdc.service == nil { return "Google Drive service not initialized" }:
\* the only check UploadFolder makes of its client; PCloudClient.UploadFolder
\* makes none.
Uninitialized(b, ad) == b = "gdrive" /\ ~ad.service

\* Parents: []string{gdc.rootFolderID} / "folderid": FormatInt(pc.rootFolderID)
RunContainerParentGlobalRoot(ad) == GlobalRoot
RunContainerParent(ad) == ad.rootFolderID

\* UploadFolder up to the creation of the run container, on client ad: it
\* returns at once, or asks the provider for a folder named backupName under
\* the root folder the client holds.
CreateBackupFolder(b, ad, done) ==
    IF Uninitialized(b, ad)
    THEN {[created |-> FALSE, net |-> FALSE, err |-> "service not initialized",
           parent |-> RunContainerParent(ad)]}
    ELSE {[created |-> c, net |-> TRUE,
           err |-> IF c THEN "nil" ELSE "failed to create backup folder",
           parent |-> RunContainerParent(ad)] :
             c \in RemoteOutcomes(b, "folder", done)}

\* UploadFolder up to its call of uploadDirectoryRecursive: the run container
\* is created under the root folder, then the staged directory is read.
UploadFolder(b) ==
    /\ upPc[b] = "upload_folder"
    /\ \E h \in CreateBackupFolder(b, adapter[b], cancelled), readable \in BOOLEAN :
          /\ runContainer' = [runContainer EXCEPT ![b] = h.created]
          /\ runMeta' = [runMeta EXCEPT ![b] =
                            IF h.created
                            THEN Append(@, [name |-> UploadLabel(b, backupName),
                                            parent |-> h.parent])
                            ELSE @]
          /\ net' = [net EXCEPT ![b].upload = @ \/ h.net]
          /\ IF ~h.net
             THEN Goto(b, [stack |-> <<>>, err |-> h.err, pc |-> "send"])
             ELSE IF AfterCreateBackupFolder(h.created) = "send"
             THEN Goto(b, [stack |-> <<>>, err |-> "failed to create backup folder",
                           pc |-> "send"])
             ELSE IF readable
             THEN Goto(b, [stack |-> <<Frame(1, RunContainerId)>>, err |-> upErr[b],
                           pc |-> "walk"])
             ELSE Goto(b, [stack |-> <<>>, err |-> "failed to read directory",
                           pc |-> "send"])
    /\ UNCHANGED << config, client, mainPc, cancelled, cycles >>
    /\ UNCHANGED runVars
    /\ UNCHANGED << remote, uploadCalls, started, entryFails, readFails,
                    cancelObserved, cancelInFlight >>
    /\ UNCHANGED adapterVars
    /\ UNCHANGED backupName
    /\ UNCHANGED tickPending

\* uploadDirectoryRecursive, the head of one loop iteration: the loop ends, or
\* the cancellation is seen, or the next entry is taken in hand.
WalkCheck(b) ==
    /\ upPc[b] = "walk"
    /\ Top(b).phase = "check"
    /\ IF Top(b).idx > Len(Entries(b))
       THEN /\ Goto(b, Returned(b, "nil"))
            /\ UNCHANGED << started, cancelObserved >>
       ELSE IF CtxDone(cancelled, Len(stack[b]))
       THEN /\ Goto(b, Returned(b, "context canceled"))
            /\ cancelObserved' = [cancelObserved EXCEPT ![b] = TRUE]
            /\ UNCHANGED started
       ELSE /\ Goto(b, [stack |-> [stack[b] EXCEPT ![Len(stack[b])].phase = "process"],
                        err |-> upErr[b], pc |-> "walk"])
            /\ started' = [started EXCEPT ![b] = @ \cup {Entries(b)[Top(b).idx]}]
            /\ UNCHANGED cancelObserved
    /\ UNCHANGED << config, client, mainPc, cancelled, cycles >>
    /\ UNCHANGED runVars
    /\ UNCHANGED << remote, runContainer, uploadCalls, entryFails, readFails,
                    cancelInFlight >>
    /\ UNCHANGED adapterVars
    /\ UNCHANGED cycleVars
    /\ UNCHANGED tickPending

\* uploadDirectoryRecursive, the body of one loop iteration for a directory:
\* the remote folder is created under parentID and the directory is walked
\* with the new folder as parent; a creation that fails is logged and skipped.
WalkFolder(b) ==
    /\ upPc[b] = "walk"
    /\ Top(b).phase = "process"
    /\ LET e == Entries(b)[Top(b).idx] IN
       /\ Tree.kind[e] = "dir"
       /\ \E created \in RemoteOutcomes(b, "folder", cancelled), readable \in BOOLEAN :
             IF created
             THEN /\ remote' = [remote EXCEPT ![b] =
                                   @ \cup {RemoteEntry(Tree, e, Top(b).parent)}]
                  /\ UNCHANGED entryFails
                  /\ IF readable
                     THEN /\ Goto(b, [stack |-> Append([stack[b] EXCEPT
                                                       ![Len(stack[b])].phase = "recurse"],
                                                    Frame(e, e)),
                                      err |-> upErr[b], pc |-> "walk"])
                          /\ UNCHANGED readFails
                     ELSE /\ Goto(b, Advanced(b))
                          /\ readFails' = [readFails EXCEPT ![b] = @ \cup {e}]
             ELSE /\ entryFails' = [entryFails EXCEPT ![b] = @ \cup {e}]
                  /\ UNCHANGED << remote, readFails >>
                  /\ Goto(b, EntryFailed(b, "folder", "failed to create folder"))
    /\ UNCHANGED << config, client, mainPc, cancelled, cycles >>
    /\ UNCHANGED runVars
    /\ UNCHANGED << runContainer, uploadCalls, started, cancelObserved, cancelInFlight >>
    /\ net' = [net EXCEPT ![b].upload = TRUE]
    /\ UNCHANGED adapterVars
    /\ UNCHANGED << runMeta, backupName >>
    /\ UNCHANGED tickPending

\* uploadDirectoryRecursive, the body of one loop iteration for a file:
\* uploadFile creates it under parentID; a failure is logged and skipped.
WalkFile(b) ==
    /\ upPc[b] = "walk"
    /\ Top(b).phase = "process"
    /\ LET e == Entries(b)[Top(b).idx] IN
       /\ Tree.kind[e] = "file"
       /\ \E uploaded \in RemoteOutcomes(b, "file", cancelled) :
             IF uploaded
             THEN /\ remote' = [remote EXCEPT ![b] =
                                   @ \cup {RemoteEntry(Tree, e, Top(b).parent)}]
                  /\ UNCHANGED entryFails
                  /\ Goto(b, Advanced(b))
             ELSE /\ entryFails' = [entryFails EXCEPT ![b] = @ \cup {e}]
                  /\ UNCHANGED remote
                  /\ Goto(b, EntryFailed(b, "file", "failed to upload file"))
    /\ UNCHANGED << config, client, mainPc, cancelled, cycles >>
    /\ UNCHANGED runVars
    /\ UNCHANGED << runContainer, uploadCalls, started, readFails, cancelObserved,
                    cancelInFlight >>
    /\ net' = [net EXCEPT ![b].upload = TRUE]
    /\ UNCHANGED adapterVars
    /\ UNCHANGED << runMeta, backupName >>
    /\ UNCHANGED tickPending

\* The end of the upload goroutine: results <- result.
SendResult(b) ==
    /\ upPc[b] = "send"
    /\ Len(results) < ResultsCap
    /\ results' = Append(results, UploadResult(b, upErr[b]))
    /\ upPc' = [upPc EXCEPT ![b] = "done"]
    /\ UNCHANGED << config, client, mainPc, cancelled, cycles, pc, staging,
                    deferred, cleanupRan, collected, successCount, retErr, reported >>
    /\ UNCHANGED << stack, upErr, remote, runContainer, uploadCalls, started,
                    entryFails, readFails, cancelObserved, cancelInFlight >>
    /\ UNCHANGED adapterVars
    /\ UNCHANGED cycleVars
    /\ UNCHANGED tickPending

\* ------------------------------------------------- a client on its own
\* The operations of one client object, called in turn on accounts in any of
\* the sample states: initialize(), ensureRootFolder once more, UploadFolder.

\* initialize() on a new client.
AdapterInitialize(b) ==
    /\ harness[b].pc = "new"
    /\ \E r \in Initialize(b, adapter[b], provider[b]) :
          /\ adapter' = [adapter EXCEPT ![b] = r.adapter]
          /\ provider' = [provider EXCEPT ![b] = r.provider]
          /\ harness' = [harness EXCEPT ![b] =
                [@ EXCEPT !.pc = IF r.err = "nil" THEN "initialized" ELSE "failed",
                          !.before = provider[b],
                          !.resolved = IF r.err = "nil"
                                       THEN <<r.adapter.rootFolderID>> ELSE <<>>,
                          !.created = <<Cardinality(r.provider \ provider[b])>>]]
    /\ UNCHANGED mainVars
    /\ UNCHANGED runVars
    /\ UNCHANGED upVars
    /\ UNCHANGED cycleVars
    /\ UNCHANGED tickPending

\* ensureRootFolder invoked again, right after the invocation that succeeded.
AdapterEnsureRootFolder(b) ==
    /\ harness[b].pc = "initialized"
    /\ \E r \in EnsureRootFolder(b, adapter[b], provider[b]) :
          /\ adapter' = [adapter EXCEPT ![b] = r.adapter]
          /\ provider' = [provider EXCEPT ![b] = r.provider]
          /\ harness' = [harness EXCEPT ![b] =
                [@ EXCEPT !.pc = IF r.err = "nil" THEN "resolved_twice"
                                 ELSE "second_failed",
                          !.resolved = IF r.err = "nil"
                                       THEN Append(@, r.adapter.rootFolderID) ELSE @,
                          !.created = Append(@, Cardinality(r.provider \ provider[b]))]]
    /\ UNCHANGED mainVars
    /\ UNCHANGED runVars
    /\ UNCHANGED upVars
    /\ UNCHANGED cycleVars
    /\ UNCHANGED tickPending

\* UploadFolder called on the client, whatever initialize() returned, up to
\* the creation of the run container.
AdapterUploadFolder(b) ==
    /\ harness[b].pc \in {"initialized", "failed", "resolved_twice", "second_failed"}
    /\ \E h \in CreateBackupFolder(b, adapter[b], FALSE) :
          harness' = [harness EXCEPT ![b] =
                [@ EXCEPT !.pc = "uploaded",
                          !.upload = [err |-> h.err, net |-> h.net, parent |-> h.parent]]]
    /\ UNCHANGED << provider, adapter >>
    /\ UNCHANGED mainVars
    /\ UNCHANGED runVars
    /\ UNCHANGED upVars
    /\ UNCHANGED cycleVars
    /\ UNCHANGED tickPending

\* ----------------------------------------------------------- specification

Next ==
    \/ ValidateConfig
    \/ NewBackupManager
    \/ Cancel
    \/ InitialBackup
    \/ Tick
    \/ SchedulerTick
    \/ SchedulerStop
    \/ MkdirStaging
    \/ CopyDirectoryStep
    \/ LaunchGDrive
    \/ LaunchPCloud
    \/ Collect
    \/ DecideCycle
    \/ ReturnRunBackup
    \/ \E b \in Backends : UploadFolder(b)
    \/ \E b \in Backends : WalkCheck(b)
    \/ \E b \in Backends : WalkFolder(b)
    \/ \E b \in Backends : WalkFile(b)
    \/ \E b \in Backends : SendResult(b)

Spec == Init /\ [][Next]_vars

\* The steps of main and of the scheduler loop that start something: time
\* passes, so the ticker fires while the loop waits in its select.
MainStep ==
    \/ ValidateConfig
    \/ NewBackupManager
    \/ InitialBackup
    \/ Tick
    \/ SchedulerTick

\* The steps of a running cycle: RunBackup and its two upload goroutines.
RunBackupStep ==
    \/ MkdirStaging
    \/ CopyDirectoryStep
    \/ LaunchGDrive
    \/ LaunchPCloud
    \/ Collect
    \/ DecideCycle
    \/ ReturnRunBackup
    \/ \E b \in Backends : UploadFolder(b)
    \/ \E b \in Backends : WalkCheck(b)
    \/ \E b \in Backends : WalkFolder(b)
    \/ \E b \in Backends : WalkFile(b)
    \/ \E b \in Backends : SendResult(b)

\* The program on one source tree, {a.txt, sub/b.txt}.
LiveInit ==
    /\ Init
    /\ config.tree = TreeSubLast

\* The program with its goroutines scheduled and every file-system and
\* remote call returning: main and a running cycle keep taking steps. The
\* signal (Cancel) and the stop of the loop are under no obligation.
LiveSpec ==
    /\ LiveInit
    /\ [][Next]_vars
    /\ WF_vars(MainStep)
    /\ WF_vars(RunBackupStep)

\* The program on that one source tree with no scheduling assumption at
\* all: any goroutine may stall for ever.
StallSpec == LiveInit /\ [][Next]_vars

\* A client of each backend, exercised on accounts in the sample states.
AdapterInit ==
    /\ config = [auth |-> [b \in Backends |-> TRUE], dryRun |-> FALSE, tree |-> TreeEmpty]
    /\ provider \in [Backends -> ProviderStates]
    /\ Quiescent

AdapterNext ==
    \/ \E b \in Backends : AdapterInitialize(b)
    \/ \E b \in Backends : AdapterEnsureRootFolder(b)
    \/ \E b \in Backends : AdapterUploadFolder(b)

AdapterSpec == AdapterInit /\ [][AdapterNext]_vars

\* ------------------------------------------------------------------ claims

\* The cycle in hand went through the upload phase and RunBackup has its
\* result (a dry run returns nil without one).
Concluded == ~config.dryRun /\ retErr \in {"nil", "all uploads failed"}

\* The backends with a client, and those of them whose UploadFolder returned nil.
Configured == {b \in Backends : client[b] # "nil"}

Succeeded == {b \in Configured : upErr[b] = "nil"}

\* The outcomes of backend b among a sequence of results.
OutcomesOf(b, rs) == {i \in DOMAIN rs : rs[i].backend = b}

\* The staged entries that exist remotely for backend b.
RemoteNodes(b) == {r.node : r \in remote[b]}

AllEntries == Nodes(Tree) \ {1}

\* C1: a cycle that went through the upload phase returns nil if and only if
\* at least one collected outcome has Success = true; otherwise (every outcome
\* a failure or "not configured") it returns "all uploads failed".
C1_SuccessIffSomeOutcomeSucceeded ==
    Concluded =>
        /\ (retErr = "nil") = (\E i \in DOMAIN collected : collected[i].Success)
        /\ (retErr # "nil") = (retErr = "all uploads failed")

\* C1 witness: a concluded cycle with one successful and one failed upload,
\* reported as a success.
C1_Witness ==
    /\ Concluded
    /\ pc = "return"
    /\ retErr = "nil"
    /\ \E i, j \in DOMAIN collected :
          collected[i].Success /\ collected[j].Message = "upload failed"

\* C2 (as claimed): when K >= 1 of the N configured backends succeed, the
\* cycle succeeds and the reported count is K out of N, N being the number of
\* configured backends.
C2_ReportedOutOfConfigured ==
    (Concluded /\ Cardinality(Succeeded) >= 1) =>
        /\ retErr = "nil"
        /\ reported = [succeeded |-> Cardinality(Succeeded),
                       outOf     |-> Cardinality(Configured)]

\* C3: no backend ever has more than one outcome in a cycle, and when the
\* cycle concludes each backend has exactly one collected outcome: the result
\* of its UploadFolder call when it has a client, "not configured" otherwise.
C3_OneOutcomePerBackend ==
    /\ \A b \in Backends : Cardinality(OutcomesOf(b, collected \o results)) <= 1
    /\ Concluded =>
          \A b \in Backends :
             /\ Cardinality(OutcomesOf(b, collected)) = 1
             /\ \A i \in OutcomesOf(b, collected) :
                   collected[i] = IF client[b] = "nil"
                                  THEN NotConfigured(b)
                                  ELSE UploadResult(b, upErr[b])
             /\ uploadCalls[b] = IF client[b] = "nil" THEN 0 ELSE 1

\* C3 witness: a concluded cycle with one backend not configured and the
\* other one's upload failed.
C3_Witness ==
    /\ Concluded
    /\ \E b, c \in Backends :
          /\ client[b] = "nil"
          /\ client[c] = "ready"
          /\ upErr[c] \notin {"none", "nil"}
          /\ Len(collected) = ExpectedResults

\* C4: while an upload goroutine has not delivered its outcome, RunBackup is
\* still launching or collecting: it has no result, the staging directory
\* exists and cleanup has not run.
C4_WaitsForEveryUpload ==
    \A b \in Backends :
       upPc[b] \in {"upload_folder", "walk", "send"} =>
          /\ pc \in {"launch_pcloud", "collect"}
          /\ retErr = "none"
          /\ staging.exists
          /\ ~cleanupRan

\* C4 witness: the pCloud outcome was collected first and RunBackup waits for
\* the Google Drive walk, which is still running.
C4_Witness ==
    /\ pc = "collect"
    /\ Len(collected) = 1
    /\ collected[1].backend = "pcloud"
    /\ upPc["pcloud"] = "done"
    /\ upPc["gdrive"] = "walk"
    /\ staging.exists

\* C5 (as claimed): once RunBackup returned from a cycle, whatever its
\* outcome, cleanup ran and, unless the removal itself failed, the staging
\* directory is gone.
C5_CleanupOnEveryCycle ==
    (pc = "idle" /\ retErr # "none") =>
        /\ cleanupRan
        /\ ~staging.removeFailed => ~staging.exists

\* C5 (amended): once RunBackup returned from a cycle whose staging directory
\* was created (copy error, dry run, all uploads failed, a success, cancelled
\* uploads), cleanup ran and, unless the removal itself failed, the staging
\* directory is gone; when the directory could not be created RunBackup
\* returned without running cleanup, and no staging directory exists.
C5_CleanupOnEveryReturn ==
    (pc = "idle" /\ retErr # "none") =>
        IF retErr = "failed to create backup directory"
        THEN ~staging.exists /\ ~cleanupRan
        ELSE cleanupRan /\ (~staging.removeFailed => ~staging.exists)

\* C5 witness: RunBackup returned from a cycle whose upload was cancelled in
\* flight, and the staging directory is removed.
C5_Witness ==
    /\ pc = "idle"
    /\ retErr = "all uploads failed"
    /\ \E b \in Backends : cancelInFlight[b] /\ upErr[b] = "context canceled"
    /\ cleanupRan
    /\ ~staging.exists

\* C6: a staging directory that is left incomplete by copyDirectory makes
\* RunBackup return the copy failure, and in a cycle that returns the copy
\* failure no UploadFolder was invoked and no outcome was produced.
C6_StagingAllOrNothing ==
    /\ (staging.exists /\ staging.copied < Len(WalkOrder(Tree))
           /\ pc \notin {"mkdir", "copy"}) =>
          /\ pc \in {"return", "idle"}
          /\ retErr = "failed to copy source directory"
    /\ retErr = "failed to copy source directory" =>
          /\ \A b \in Backends : uploadCalls[b] = 0 /\ upPc[b] = "idle"
          /\ results = <<>>
          /\ collected = <<>>
    /\ \A b \in Backends :
          uploadCalls[b] > 0 /\ staging.exists =>
             staging.copied = Len(WalkOrder(Tree))

\* C6 witness: with both backends ready and no dry run, an entry that is not
\* the first one could not be copied and RunBackup is returning the failure.
C6_Witness ==
    /\ pc = "return"
    /\ retErr = "failed to copy source directory"
    /\ ~config.dryRun
    /\ \A b \in Backends : client[b] = "ready"
    /\ staging.copied >= 1
    /\ staging.copied < Len(WalkOrder(Tree))

\* C7 (as claimed): UploadFolder returns nil only if the run container and
\* every file and every subfolder of the staged tree were created without an
\* error (stated for runs that are never cancelled).
C7_SuccessOnlyIfFullTree ==
    \A b \in Backends :
       (upErr[b] = "nil" /\ ~cancelled) =>
          /\ runContainer[b]
          /\ entryFails[b] = {}
          /\ RemoteNodes(b) = AllEntries

\* C7 (amended): UploadFolder returns nil only if the run container was
\* created without an error.
C7_SuccessOnlyIfRunContainer ==
    \A b \in Backends : upErr[b] = "nil" => runContainer[b]

\* C7 witness: UploadFolder returned nil, without any cancellation, although
\* the creation of an entry failed.
C7_Witness ==
    \E b \in Backends :
       /\ upErr[b] = "nil"
       /\ ~cancelled
       /\ runContainer[b]
       /\ entryFails[b] # {}

\* C8: when the remote creation of an entry fails, the walk of its directory
\* goes on with the next entry and UploadFolder's result is untouched; an
\* error returned by UploadFolder is never that of an entry: of the remote
\* creations only that of the run container fails the outcome (the other
\* errors are the cancellation and an unreadable staged directory).
C8_EntryFailureIsSkipped ==
    /\ [][\A b \in Backends :
             (entryFails[b] # entryFails'[b] /\ entryFails[b] \subseteq entryFails'[b]) =>
                /\ upPc'[b] = "walk"
                /\ upErr'[b] = upErr[b]
                /\ Len(stack'[b]) = Len(stack[b])
                /\ stack'[b][Len(stack[b])].dir = stack[b][Len(stack[b])].dir
                /\ stack'[b][Len(stack[b])].idx = stack[b][Len(stack[b])].idx + 1]_vars
    /\ [](\A b \in Backends :
             upErr[b] \notin {"none", "nil"} =>
                \/ upErr[b] = "failed to create backup folder" /\ ~runContainer[b]
                \/ upErr[b] = "context canceled" /\ cancelObserved[b]
                \/ upErr[b] = "failed to read directory" /\ runContainer[b])

\* C8 witness: an entry failed, a later sibling of it was created all the
\* same, and the backend's outcome is a success.
C8_Witness ==
    \E b \in Backends :
       /\ upPc[b] = "done"
       /\ upErr[b] = "nil"
       /\ \E e \in entryFails[b], r \in remote[b] :
             /\ r.node > e
             /\ ParentOf(Tree, r.node) = ParentOf(Tree, e)

\* C9 (as claimed): when the cancellation arrives while UploadFolder is in
\* flight and a level of the walk sees it, UploadFolder returns the
\* cancellation error (its outcome is never a success).
C9_CancelledUploadFails ==
    \A b \in Backends :
       (upPc[b] \in {"send", "done"} /\ cancelInFlight[b] /\ cancelObserved[b]) =>
          upErr[b] = "context canceled"

\* C10: once the context is cancelled no level of any walk takes a further
\* entry in hand, and nothing is created remotely for an entry that was not
\* taken in hand.
C10_NoNewEntryAfterCancel ==
    /\ [][cancelled => \A b \in Backends : started'[b] \subseteq started[b]]_vars
    /\ [](\A b \in Backends : RemoteNodes(b) \subseteq started[b])

\* C10 witness: a level below the top one saw the cancellation and returned,
\* the walk is still running and entries of the tree were never begun.
C10_Witness ==
    \E b \in Backends :
       /\ cancelled
       /\ cancelObserved[b]
       /\ upPc[b] = "walk"
       /\ started[b] # AllEntries

\* main is past NewBackupManager: the clients are what they will stay.
Started == mainPc \in {"initial_backup", "running", "scheduler", "fatal"}

\* The backends that are not configured, or whose initialize() failed.
Unavailable == {b \in Backends : ~config.auth[b] \/ ~adapter[b].initialized}

\* RunBackup is past the launch of backend b in the cycle in hand.
PastLaunch(b) ==
    \/ pc \in {"collect"}
    \/ pc = "launch_pcloud" /\ b = "gdrive"
    \/ pc = "return" /\ Concluded

\* C11: a backend that is not configured, or whose initialization failed at
\* startup, has no client in any later cycle; each cycle that reaches the
\* upload phase gives it exactly one outcome, "not configured", its
\* UploadFolder is not called and no upload request is sent for it; the
\* failed initialization does not end the program (main goes on to the
\* initial backup, and stops only without credentials or on cancellation).
C11_UnavailableBackendNotConfigured ==
    /\ [](Started =>
            \A b \in Unavailable :
               /\ client[b] = "nil"
               /\ uploadCalls[b] = 0
               /\ upPc[b] = "idle"
               /\ ~net[b].upload
               /\ runMeta[b] = <<>>
               /\ \A i \in OutcomesOf(b, collected \o results) :
                     (collected \o results)[i] = NotConfigured(b)
               /\ PastLaunch(b) =>
                     Cardinality(OutcomesOf(b, collected \o results)) = 1)
    /\ [](mainPc = "exit1" => \A b \in Backends : ~config.auth[b])
    /\ [](mainPc = "fatal" => cancelled)
    /\ [][/\ Started => client' = client /\ Unavailable' = Unavailable
          /\ mainPc = "new_manager" => mainPc' \in {"new_manager", "initial_backup"}]_vars

\* C11 witness: Google Drive has credentials but its root-folder resolution
\* failed at startup; the second cycle of the process ends with its "not
\* configured" outcome collected, next to a successful pCloud upload.
C11_Witness ==
    /\ config.auth["gdrive"]
    /\ net["gdrive"].init
    /\ ~adapter["gdrive"].initialized
    /\ cycles = 2
    /\ pc = "return"
    /\ retErr = "nil"
    /\ \E i \in DOMAIN collected : collected[i] = NotConfigured("gdrive")
    /\ uploadCalls["pcloud"] = 1

\* C13 (as claimed): with no configured backend (credentials non-empty and
\* initialization successful), a backup cycle creates no staging directory
\* and copies no source file.
C13_NoStagingWithoutBackend ==
    (Started /\ Configured = {}) => (~staging.exists /\ staging.copied = 0)

\* C19 (as claimed): in dry-run mode a cycle whose cloning succeeded returns
\* nil with the cleanup run, no UploadFolder is invoked, and the process
\* performs no network I/O at all: no upload request, and none at startup
\* either (nothing is looked up or created in an account).
C19_DryRunNoNetwork ==
    config.dryRun =>
        /\ \A b \in Backends :
              /\ uploadCalls[b] = 0
              /\ ~net[b].upload
              /\ ~net[b].init
              /\ provider[b] = {}
        /\ (pc = "idle" /\ retErr = "nil") => cleanupRan
        /\ (pc = "return" /\ staging.copied = Len(WalkOrder(Tree))) => retErr = "nil"

\* C16: whenever a backend has created a run container in a cycle, its
\* root-container resolution had succeeded at startup, the root it holds is a
\* folder the resolution found or created in the account, and the run
\* container's parent is that root; once main is past NewBackupManager no
\* step (UploadFolder, a later cycle) changes a client's root folder ID.
C16_RunContainerUnderResolvedRoot ==
    /\ [](\A b \in Backends :
            \A i \in DOMAIN runMeta[b] :
               /\ adapter[b].initialized
               /\ net[b].init
               /\ adapter[b].rootFolderID \in {o.id : o \in Lookup(b, provider[b])}
               /\ runMeta[b][i].parent = adapter[b].rootFolderID)
    /\ [][Started => adapter' = adapter]_vars

\* C16 witness: in the second cycle of the process both backends have
\* created their run container under the root resolved at startup.
C16_Witness ==
    /\ cycles = 2
    /\ \A b \in Backends :
          /\ Len(runMeta[b]) = 1
          /\ runMeta[b][1].parent = adapter[b].rootFolderID
          /\ runMeta[b][1].parent # GlobalRoot

\* C18: in a cycle every run container bears the cycle's label, the same for
\* both backends and equal to the name of the cycle's staging subdirectory;
\* a backend creates at most one run container per cycle, exactly one once
\* its UploadFolder got past the creation, and it lies directly under the
\* backend's root container.
C18_OneRunLabelPerCycle ==
    /\ \A b \in Backends :
          /\ Len(runMeta[b]) <= 1
          /\ runContainer[b] <=> Len(runMeta[b]) = 1
          /\ upErr[b] = "nil" => Len(runMeta[b]) = 1
          /\ \A i \in DOMAIN runMeta[b] :
                /\ runMeta[b][i].name = backupName
                /\ staging.exists => runMeta[b][i].name = staging.name
                /\ runMeta[b][i].parent = adapter[b].rootFolderID
    /\ \A b1, b2 \in Backends :
          \A i \in DOMAIN runMeta[b1], j \in DOMAIN runMeta[b2] :
             runMeta[b1][i].name = runMeta[b2][j].name
    /\ staging.exists => staging.name = backupName

\* C18 witness: both backends have created their run container while the
\* staging directory of the cycle is still there.
C18_Witness ==
    /\ staging.exists
    /\ staging.name = BackupName(2)
    /\ \A b \in Backends :
          /\ Len(runMeta[b]) = 1
          /\ runMeta[b][1].name = staging.name

\* The path of source entry n relative to the source folder, as the sequence
\* of its names.
RECURSIVE SourcePath(_, _)
SourcePath(t, n) ==
    IF ParentOf(t, n) = 0 THEN <<>>
    ELSE Append(SourcePath(t, ParentOf(t, n)), t.name[n])

\* The path of remote object r relative to the run container, following the
\* parent IDs through the objects rs (<<"?">> stands for a parent that is not
\* a folder of rs).
RECURSIVE RemotePath(_, _, _)
RemotePath(rs, r, fuel) ==
    IF r.parent = RunContainerId THEN <<r.name>>
    ELSE IF fuel = 0 \/ ~\E q \in rs : q.node = r.parent /\ q.kind = "dir"
    THEN <<"?", r.name>>
    ELSE Append(RemotePath(rs, CHOOSE q \in rs : q.node = r.parent /\ q.kind = "dir",
                           fuel - 1),
                r.name)

\* The source tree and the remote tree of backend b as sets of
\* (relative path, type, bytes).
SourceImage(t) ==
    {[path |-> SourcePath(t, n), kind |-> t.kind[n], data |-> t.data[n]] :
        n \in Nodes(t) \ {1}}

RemoteImage(b) ==
    {[path |-> RemotePath(remote[b], r, Cardinality(remote[b])),
      kind |-> r.kind, data |-> r.data] : r \in remote[b]}

\* Backend b mirrored the staged tree without any failure and without
\* cancellation: UploadFolder returned nil, no entry failed remotely and no
\* staged directory was unreadable.
HealthyUpload(b) ==
    /\ upErr[b] = "nil"
    /\ ~cancelled
    /\ entryFails[b] = {}
    /\ readFails[b] = {}

\* C17: for each sample source tree, once the tree was cloned into staging
\* and a healthy backend mirrored the staging without cancellation, the
\* objects under the run container carry exactly the relative paths of the
\* source tree, each file with the bytes of its source file and each
\* directory as a folder; no two remote objects share a path.
C17_RemoteTreeIsomorphic ==
    \A b \in Backends :
       HealthyUpload(b) =>
          /\ runContainer[b]
          /\ RemoteImage(b) = SourceImage(Tree)
          /\ Cardinality(remote[b]) = Cardinality(SourceImage(Tree))

\* C17 witness: the three-level tree, with a file name used in two
\* directories, was mirrored to pCloud by a healthy upload.
C17_Witness ==
    /\ Tree = TreeDeep
    /\ HealthyUpload("pcloud")
    /\ [path |-> <<"sub", "deep", "a.txt">>, kind |-> "file", data |-> "C"]
          \in RemoteImage("pcloud")
    /\ [path |-> <<"a.txt">>, kind |-> "file", data |-> "A"] \in RemoteImage("pcloud")

\* C12 (as claimed): UploadFolder called on a client whose initialize()
\* failed returns a "not initialized" error at once, without sending any
\* request (no creation of a run container is asked for).
C12_FailedAdapterFailsFast ==
    \A b \in Backends :
       (harness[b].pc = "uploaded" /\ ~adapter[b].initialized) =>
          /\ harness[b].upload.err = "service not initialized"
          /\ ~harness[b].upload.net

\* The live folders of account p that bear the well-known name, wherever
\* they lie.
NamedContainers(p) == {o \in p : o.name = WellKnownName /\ o.isFolder /\ ~o.trashed}

\* ensureRootFolder returned nil twice in succession on the client of b.
ResolvedTwice(b) == Len(harness[b].resolved) = 2

C15_RootIsChildOfGlobalRoot ==
    \A b \in Backends :
       adapter[b].initialized =>
          \E o \in provider[b] :
             /\ o.id = adapter[b].rootFolderID
             /\ o.parent = GlobalRoot
             /\ o.name = WellKnownName
             /\ o.isFolder

\* C20: RunBackup is first called right after NewBackupManager, before the
\* scheduler loop, and then from the loop's ticker case; whatever a cycle
\* returns (the initial one or a scheduled one), main goes on to the loop's
\* select; the loop is left only with the context cancelled; and as long as
\* the context is not cancelled every cycle is followed by the start of a
\* further one (up to the MaxCycles cycles explored).
C20_CyclesGoOnUntilCancelled ==
    /\ [](mainPc = "initial_backup" => cycles = 0)
    /\ [](mainPc = "scheduler" => cycles >= 1)
    /\ [](mainPc = "fatal" => cancelled)
    /\ [][pc = "return" /\ pc' = "idle" => mainPc' = "scheduler"]_vars
    /\ [][mainPc = "scheduler" /\ mainPc' # "scheduler" =>
             \/ mainPc' = "running" /\ cycles' = cycles + 1
             \/ mainPc' = "fatal" /\ cancelled]_vars
    /\ (mainPc = "new_manager") ~> (cycles >= 1)
    /\ \A k \in 1..(MaxCycles - 1) : (cycles = k) ~> (cancelled \/ cycles > k)

\* C20 witness: no backend has a client and it is not a dry run, so the
\* first cycle failed; the context is not cancelled and the scheduler has
\* started a second cycle.
C20_Witness ==
    /\ ~config.dryRun
    /\ Configured = {}
    /\ ~cancelled
    /\ cycles = 2
    /\ mainPc = "running"
    /\ pc = "mkdir"

\* A goroutine of the cycle in hand is still running for backend b.
Running(b) == upPc[b] \in {"upload_folder", "walk", "send"}

\* Nothing of a cycle is active: RunBackup is not running and no upload
\* goroutine is left.
NoCycleActive == pc = "idle" /\ \A b \in Backends : ~Running(b)

\* C21: a cycle is started only by main's initial call or by the scheduler
\* loop at its select, and only when nothing of an earlier cycle is active;
\* whenever main is not inside RunBackup no cycle is active. A tick that
\* fires while a cycle runs waits in the ticker channel.
C21_AtMostOneCycleActive ==
    /\ [](mainPc # "running" => NoCycleActive)
    /\ [](TickerRunning \/ ~tickPending \/ mainPc = "fatal")
    /\ [][cycles' # cycles =>
             /\ cycles' = cycles + 1
             /\ mainPc \in {"initial_backup", "scheduler"}
             /\ NoCycleActive]_vars
    /\ [][(mainPc = "running" /\ ~NoCycleActive') => cycles' = cycles]_vars

\* C21 witness: the interval elapsed while the second cycle is still
\* uploading; the tick waits and no further cycle was started.
C21_Witness ==
    /\ mainPc = "running"
    /\ cycles = 2
    /\ tickPending
    /\ upPc["gdrive"] = "walk"
    /\ upPc["pcloud"] = "upload_folder"

\* C22 (as claimed): after the signal cancelled the context the scheduler
\* loop stops and main ends gracefully; it never ends through the fatal-error
\* path.
C22_GracefulShutdownOnSignal ==
    cancelled => mainPc # "fatal"

\* The goroutine of b has entry e in hand (it is creating it remotely).
InHand(b, e) ==
    /\ upPc[b] = "walk"
    /\ Top(b).phase = "process"
    /\ Entries(b)[Top(b).idx] = e

\* C23 (as claimed): a remote operation (file upload, folder creation) that
\* failed is attempted again: an entry whose creation failed is in hand
\* again or was created after all, never left behind after one attempt.
C23_FailedOperationRetried ==
    \A b \in Backends :
       \A e \in entryFails[b] : InHand(b, e) \/ e \in RemoteNodes(b)

\* A step of the upload goroutine of backend b.
UploadStep(b) ==
    \/ UploadFolder(b)
    \/ WalkCheck(b)
    \/ WalkFolder(b)
    \/ WalkFile(b)
    \/ SendResult(b)

\* The steps of RunBackup between the staging and its decision: the two
\* launches and the collector loop.
FanInStep ==
    \/ LaunchGDrive
    \/ LaunchPCloud
    \/ Collect

\* The outcome of backend b's upload was received by the collector loop.
OutcomeCollected(b) == OutcomesOf(b, collected) # {}

\* C24: an upload goroutine that has not sent its result can always take a
\* step, whatever the other backend's goroutine does, and a launch is never
\* held up; with only the goroutine of backend b and RunBackup's launches and
\* collector loop scheduled (the other backend's upload may stall for ever),
\* the outcome of b is received by the collector, and a success is counted.
C24_UploadsIndependent ==
    /\ [](\A b \in Backends : Running(b) => ENABLED UploadStep(b))
    /\ [](pc \in {"launch_gdrive", "launch_pcloud"} => ENABLED FanInStep)
    /\ [](\A b \in Backends :
            (OutcomeCollected(b) /\ upErr[b] = "nil") => successCount >= 1)
    /\ \A b \in Backends :
          (WF_vars(UploadStep(b)) /\ WF_vars(FanInStep)) =>
             ((pc = "launch_gdrive" /\ client[b] # "nil") ~> OutcomeCollected(b))

\* C24 witness: the Google Drive upload has not got past its first request
\* while the pCloud upload succeeded and its outcome was collected and counted.
C24_Witness ==
    /\ upPc["gdrive"] = "upload_folder"
    /\ upPc["pcloud"] = "done"
    /\ upErr["pcloud"] = "nil"
    /\ OutcomeCollected("pcloud")
    /\ successCount = 1
    /\ pc = "collect"

\* The UploadFolder of backend b asked for the run container and was refused.
RunContainerFailed(b) ==
    /\ uploadCalls[b] > 0
    /\ upPc[b] \in {"send", "done"}
    /\ ~runContainer[b]

\* C25: when the creation of the run container failed, UploadFolder returned
\* an error without taking any entry in hand: nothing was uploaded or created
\* for that backend in the cycle, and its outcome is a failure.
C25_RunContainerFailureAborts ==
    \A b \in Backends :
       RunContainerFailed(b) =>
          /\ upErr[b] \notin {"nil", "none"}
          /\ started[b] = {}
          /\ remote[b] = {}
          /\ entryFails[b] = {}
          /\ runMeta[b] = <<>>
          /\ stack[b] = <<>>
          /\ \A i \in OutcomesOf(b, collected \o results) :
                ~(collected \o results)[i].Success

\* C25 witness: pCloud refused the run container of a tree with entries; the
\* failure was collected while Google Drive mirrors the tree.
C25_Witness ==
    /\ Tree = TreeSubLast
    /\ RunContainerFailed("pcloud")
    /\ upErr["pcloud"] = "failed to create backup folder"
    /\ \E i \in DOMAIN collected : collected[i] = UploadResult("pcloud", upErr["pcloud"])
    /\ remote["gdrive"] # {}

\* The results sent so far in the cycle in hand.
Sent == Len(collected) + Len(results)

\* C26: in a cycle that reaches the upload phase the results channel never
\* holds more than its two slots, a sender never finds it full (neither a
\* goroutine at its send nor RunBackup at a "not configured" send), at most
\* two results are sent and two received, and RunBackup decides with exactly
\* two sent and two received and no upload goroutine left; with every step
\* of the cycle scheduled and every call returning, a cycle at its first
\* launch ends.
C26_FanInNeverBlocks ==
    /\ [](Len(results) <= ResultsCap /\ Sent <= 2 /\ Len(collected) <= 2)
    /\ [](\A b \in Backends : upPc[b] = "send" => ENABLED SendResult(b))
    /\ [](pc \in {"launch_gdrive", "launch_pcloud"} => ENABLED FanInStep)
    /\ []((pc = "return" /\ Concluded) =>
            /\ Len(collected) = 2
            /\ results = <<>>
            /\ \A b \in Backends : ~Running(b))
    /\ [](pc = "idle" => \A b \in Backends : ~Running(b))
    /\ (pc = "launch_gdrive") ~> (pc = "idle")

\* C26 witness: Google Drive has no client and pCloud has one; the "not
\* configured" result was sent before any receive, and the cycle decided
\* after two receives.
C26_Witness ==
    /\ client["gdrive"] = "nil"
    /\ client["pcloud"] # "nil"
    /\ pc = "return"
    /\ Concluded
    /\ Len(collected) = 2
    /\ upPc["pcloud"] = "done"

\* C27 (as claimed): once the context is cancelled the scheduler loop starts
\* no cycle, a pending tick notwithstanding: RunBackup is not entered from
\* the select, so no staging directory and no run container of a new cycle
\* come to be.
C27_NoCycleAfterCancel ==
    [][(cancelled /\ mainPc = "scheduler") =>
          /\ cycles' = cycles
          /\ mainPc' # "running"]_vars

\* Whether staged entry n lies below directory d.
RECURSIVE IsBelow(_, _, _)
IsBelow(t, n, d) ==
    IF ParentOf(t, n) = 0 THEN FALSE
    ELSE ParentOf(t, n) = d \/ IsBelow(t, ParentOf(t, n), d)

\* C28: at every point of an upload the objects under the run container
\* form a sub-tree of the staged tree that is closed under parents: each
\* object stands for one staged entry, is of its type, has the remote
\* folder of the entry's directory as parent (the run container for the
\* entries of the staged root), and that folder exists; nothing below a
\* directory whose folder could not be created exists remotely.
C28_RemoteTreePrefixClosed ==
    \A b \in Backends :
       /\ remote[b] # {} => runContainer[b]
       /\ Cardinality(RemoteNodes(b)) = Cardinality(remote[b])
       /\ \A r \in remote[b] :
             /\ r.node \in AllEntries
             /\ r.kind = Tree.kind[r.node]
             /\ r.parent = RemoteIdOf(ParentOf(Tree, r.node))
             /\ ParentOf(Tree, r.node) # 1 =>
                   \E q \in remote[b] :
                      q.node = ParentOf(Tree, r.node) /\ q.kind = "dir"
       /\ \A e \in entryFails[b] :
             Tree.kind[e] = "dir" =>
                \A r \in remote[b] : r.node # e /\ ~IsBelow(Tree, r.node, e)

\* C28 witness: of the three-level tree, a.txt was uploaded, the folder for
\* sub could not be created, and the upload ended with the context
\* cancelled: nothing of sub exists remotely.
C28_Witness ==
    \E b \in Backends :
       /\ Tree = TreeDeep
       /\ cancelled
       /\ 3 \in entryFails[b]
       /\ RemoteNodes(b) = {2}
       /\ upPc[b] = "done"

====
